---- MODULE Spec2Model ----
(***************************************************************************)
(* The BIM-DES dashboard page (bim_des/ui/main.py, bim_des/ui/ui_bim.py)   *)
(* as a state machine.                                                     *)
(*                                                                         *)
(* State: the component properties the callbacks read and write, plus the  *)
(* callback invocations that have started and not yet completed.  Every    *)
(* callback that declares running=[...] is two steps: its start, which     *)
(* applies the "while running" values, and its completion, which applies   *)
(* the "on completion" values and then the values the function returned.   *)
(* A write to one of the two stores re-runs bim_compute_button_state,      *)
(* whose inputs they are; that re-run is part of the step that wrote the   *)
(* store.                                                                  *)
(*                                                                         *)
(* Strings are sequences of one-character strings, bytes are sequences of  *)
(* integers, Python's None is the record None, a duration is an integer    *)
(* number of 1/10000 time units.                                           *)
(***************************************************************************)
EXTENDS Integers, Sequences, FiniteSets, Bags, TLC

(***************************************************************************)
(* Bounds of the model                                                     *)
(***************************************************************************)
\* A session holds at most this many uploads and compute clicks.
MaxStarts == 5

(***************************************************************************)
(* Values                                                                  *)
(***************************************************************************)
None == [tag |-> "None"]

\* Plain children of a component: the pieces of text (or components) in order.
Text(s) == [tag |-> "text", children |-> s]

Pre(cls, s) == [tag |-> "Pre", className |-> cls, children |-> s]

H1(cls, s) == [tag |-> "H1", className |-> cls, children |-> s]

Exception(type, msg) == [tag |-> "Exception", type |-> type, msg |-> msg]

IsException(v) == v.tag = "Exception"

\* bool(v) for the values a dcc.Store holds here: None, a str, a dict.
Truthy(v) ==
    CASE v.tag = "None" -> FALSE
      [] v.tag = "str"  -> Len(v.s) > 0
      [] v.tag = "dict" -> v.n_keys > 0
      [] OTHER          -> TRUE

PyStr(s) == [tag |-> "str", s |-> s]

(***************************************************************************)
(* str.split(',') and the two-name unpacking  _, content_str = ...         *)
(***************************************************************************)
RECURSIVE SplitFrom(_, _, _)
\* The parts of s[i..] given the part cur read so far.
SplitFrom(s, i, cur) ==
    IF i > Len(s) THEN <<cur>>
    ELSE IF s[i] = "," THEN <<cur>> \o SplitFrom(s, i + 1, <<>>)
    ELSE SplitFrom(s, i + 1, Append(cur, s[i]))

Split(s) == SplitFrom(s, 1, <<>>)

\* _, content_str = file_b64.split(','): the second part, or ValueError.
ContentStr(file_b64) ==
    LET parts == Split(file_b64) IN
    IF Len(parts) < 2
    THEN Exception("ValueError", "not enough values to unpack (expected 2, got 1)")
    ELSE IF Len(parts) > 2
    THEN Exception("ValueError", "too many values to unpack (expected 2)")
    ELSE PyStr(parts[2])

(***************************************************************************)
(* base64.b64decode (validate=False): characters outside the alphabet are  *)
(* skipped, four data characters give three bytes, '=' ends a group.       *)
(***************************************************************************)
B64Value(ch) ==
    CASE ch = "A" -> 0
      [] ch = "Q" -> 16
      [] ch = "U" -> 20
      [] OTHER    -> 64

RECURSIVE A2B(_, _, _, _, _, _)
\* binascii.a2b_base64 from position i: quad_pos data characters of the
\* current group read, leftchar their pending bits, pads the '=' seen.
A2B(s, i, quad_pos, leftchar, pads, out) ==
    IF i > Len(s) THEN
        IF quad_pos = 0 THEN [tag |-> "bytes", b |-> out]
        ELSE IF quad_pos = 1
        THEN Exception("binascii.Error", "Invalid base64-encoded string")
        ELSE Exception("binascii.Error", "Incorrect padding")
    ELSE IF s[i] = "=" THEN
        IF quad_pos >= 2 /\ quad_pos + pads + 1 >= 4
        THEN [tag |-> "bytes", b |-> out]
        ELSE A2B(s, i + 1, quad_pos, leftchar,
                 IF quad_pos >= 2 THEN pads + 1 ELSE pads, out)
    ELSE IF B64Value(s[i]) >= 64 THEN A2B(s, i + 1, quad_pos, leftchar, pads, out)
    ELSE LET v == B64Value(s[i]) IN
        CASE quad_pos = 0 -> A2B(s, i + 1, 1, v, 0, out)
          [] quad_pos = 1 ->
                A2B(s, i + 1, 2, v % 16, 0, Append(out, leftchar * 4 + v \div 16))
          [] quad_pos = 2 ->
                A2B(s, i + 1, 3, v % 4, 0, Append(out, leftchar * 16 + v \div 4))
          [] OTHER ->
                A2B(s, i + 1, 0, 0, 0, Append(out, leftchar * 64 + v))

\* b64decode(x): TypeError for None, else the bytes or binascii.Error.
B64Decode(x) ==
    IF x.tag = "None"
    THEN Exception("TypeError", "argument should be a bytes-like object or ASCII string, not 'NoneType'")
    ELSE A2B(x.s, 1, 0, 0, 0, <<>>)

(***************************************************************************)
(* The parts of the package the page calls and does not define: each       *)
(* returns a value or raises, as its environment env decides.              *)
(***************************************************************************)
\* file.write(file_bytes) into the NamedTemporaryFile: the bytes on disk.
WriteTemp(file_bytes, env) ==
    IF env.io = "write_fails"
    THEN Exception("OSError", "No space left on device")
    ELSE file_bytes

\* BimModel.from_ifc(path): the model of the file's bytes, or an exception.
FromIfc(file_bytes, env) ==
    IF env.io = "from_ifc_raises"
    THEN Exception("IfcError", "malformed geometry")
    ELSE [tag |-> "BimModel", ifc |-> file_bytes.b]

\* openpyxl.load_workbook(BytesIO(file_bytes), data_only=True)
LoadWorkbook(file_bytes, env) ==
    IF env.io = "load_workbook_raises"
    THEN Exception("InvalidFileException", "File is not a zip file")
    ELSE [tag |-> "Workbook", xlsx |-> file_bytes.b]

\* RunnerConfig.from_excel(wbook)
FromExcel(wbook, env) ==
    IF env.io = "from_excel_raises"
    THEN Exception("ValidationError", "validation error for RunnerConfig")
    ELSE [tag |-> "RunnerConfig", fields |-> wbook.xlsx]

\* cfg.model_dump(mode='json'): a dict with one key per field.
ModelDump(cfg) == [tag |-> "dict", n_keys |-> 1, fields |-> cfg.fields]

\* RunnerConfig.model_validate(obj): the config of a dumped dict.
ModelValidate(obj) ==
    IF obj.tag = "dict"
    THEN [tag |-> "RunnerConfig", fields |-> obj.fields]
    ELSE Exception("ValidationError", "Input should be a valid dictionary")

\* runner_times(model, config): a mapping journey -> duration, as the
\* sequence of its items, or an exception.
RunnerTimes(model, config, env) == env.rt

(***************************************************************************)
(* upload_ifc_file                                                         *)
(***************************************************************************)
\* The mutation of upload_ifc_file that keeps the rejected payload.
UploadIfcFile_KeepsContent(file_b64, file_name, env) ==
    LET content_str == ContentStr(file_b64)
        file_bytes  == IF IsException(content_str) THEN content_str
                       ELSE B64Decode(content_str)
        written     == IF IsException(file_bytes) THEN file_bytes
                       ELSE WriteTemp(file_bytes, env)
        model       == IF IsException(written) THEN written
                       ELSE FromIfc(written, env)
    IN  IF IsException(model)
        THEN <<Pre("text-danger", model.msg),
               IF IsException(content_str) THEN None ELSE content_str>>
        ELSE <<Text(<<"Sucessfully parsed ", file_name>>), content_str>>

\* The mutation of upload_ifc_file that saves file_b64, the whole data URL.
UploadIfcFile_StoresWholeUrl(file_b64, file_name, env) ==
    LET content_str == ContentStr(file_b64)
        file_bytes  == IF IsException(content_str) THEN content_str
                       ELSE B64Decode(content_str)
        written     == IF IsException(file_bytes) THEN file_bytes
                       ELSE WriteTemp(file_bytes, env)
        model       == IF IsException(written) THEN written
                       ELSE FromIfc(written, env)
    IN  IF IsException(model)
        THEN <<Pre("text-danger", model.msg), None>>
        ELSE <<Text(<<"Sucessfully parsed ", file_name>>), PyStr(file_b64)>>

\* The values upload_ifc_file returns: <<status children, store data>>.
UploadIfcFile(file_b64, file_name, env) ==
    LET content_str == ContentStr(file_b64)
        file_bytes  == IF IsException(content_str) THEN content_str
                       ELSE B64Decode(content_str)
        written     == IF IsException(file_bytes) THEN file_bytes
                       ELSE WriteTemp(file_bytes, env)
        model       == IF IsException(written) THEN written
                       ELSE FromIfc(written, env)
    IN  IF IsException(model)
        THEN <<Pre("text-danger", model.msg), None>>
        ELSE <<Text(<<"Sucessfully parsed ", file_name>>), content_str>>

(***************************************************************************)
(* upload_runner_config                                                    *)
(***************************************************************************)
\* The mutation of upload_runner_config whose except branch returns an
\* empty dict for the store.
UploadRunnerConfig_EmptyDict(file_b64, file_name, env) ==
    LET content_str == ContentStr(file_b64)
        file_bytes  == IF IsException(content_str) THEN content_str
                       ELSE B64Decode(content_str)
        wbook       == IF IsException(file_bytes) THEN file_bytes
                       ELSE LoadWorkbook(file_bytes, env)
        cfg         == IF IsException(wbook) THEN wbook
                       ELSE FromExcel(wbook, env)
    IN  IF IsException(cfg)
        THEN <<Pre("text-danger", cfg.msg),
               [tag |-> "dict", n_keys |-> 0, fields |-> <<>>]>>
        ELSE <<Text(<<"Sucessfully parsed ", file_name>>), ModelDump(cfg)>>

\* The values upload_runner_config returns: <<status children, store data>>.
UploadRunnerConfig(file_b64, file_name, env) ==
    LET content_str == ContentStr(file_b64)
        file_bytes  == IF IsException(content_str) THEN content_str
                       ELSE B64Decode(content_str)
        wbook       == IF IsException(file_bytes) THEN file_bytes
                       ELSE LoadWorkbook(file_bytes, env)
        cfg         == IF IsException(wbook) THEN wbook
                       ELSE FromExcel(wbook, env)
    IN  IF IsException(cfg)
        THEN <<Pre("text-danger", cfg.msg), None>>
        ELSE <<Text(<<"Sucessfully parsed ", file_name>>), ModelDump(cfg)>>

(***************************************************************************)
(* bim_compute_button_state                                                *)
(***************************************************************************)
\* The value of btn-compute-runner-times.disabled it returns.
BimComputeButtonState(ifc_data, config_data) ==
    ~(Truthy(ifc_data) /\ Truthy(config_data))

(***************************************************************************)
(* ui_bim.compute_runner_times                                             *)
(***************************************************************************)
RECURSIVE Replace(_, _)
\* s.replace(old, ''): s without the characters equal to old.
Replace(s, old) ==
    IF s = <<>> THEN <<>>
    ELSE IF Head(s) = old THEN Replace(Tail(s), old)
    ELSE <<Head(s)>> \o Replace(Tail(s), old)

\* round(v, 3) of a duration of v/10000 units: the nearest multiple of
\* 1/1000, a tie going to the even one.
Round3(v) ==
    LET q == v \div 10
        r == v % 10
    IN  IF r < 5 THEN q * 10
        ELSE IF r > 5 THEN (q + 1) * 10
        ELSE IF q % 2 = 0 THEN q * 10 ELSE (q + 1) * 10

\* pd.DataFrame([[str(k).replace("'", ''), v] for k, v in rt.items()],
\*              columns=['runner_journey', 'runner_time'])
\* An item of rt is <<str(k), v>>; a row is a record of the two columns.
DataFrame(rt) ==
    [i \in 1..Len(rt) |->
        [runner_journey |-> Replace(rt[i][1], "'"), runner_time |-> rt[i][2]]]

\* df.copy().round({'runner_time': 3})
RoundFrame(df) ==
    [i \in 1..Len(df) |->
        [runner_journey |-> df[i].runner_journey,
         runner_time    |-> Round3(df[i].runner_time)]]

\* dbc.Table.from_dataframe(df): a header of the column names, a row per
\* frame row.
TableFromDataframe(df) ==
    [tag    |-> "Table",
     header |-> <<"runner_journey", "runner_time">>,
     rows   |-> [i \in 1..Len(df) |-> <<df[i].runner_journey, df[i].runner_time>>]]

\* df.to_dict(): column -> (row index -> value); row indices count from 1
\* here and from 0 in pandas.
ToDict(df) ==
    [runner_journey |-> [i \in 1..Len(df) |-> df[i].runner_journey],
     runner_time    |-> [i \in 1..Len(df) |-> df[i].runner_time]]

\* The mutation of the results renderer that stores the rounded frame.
UiBimStack_StoresRounded(rt) ==
    LET df  == DataFrame(rt)
        df2 == RoundFrame(df)
    IN  [tag      |-> "Stack",
         heading  |-> "Runner times",
         table    |-> TableFromDataframe(df2),
         store_bim_results |-> [runner_times |-> ToDict(df2)]]

\* The dbc.Stack built from the mapping rt (ui_bim.py lines 20-35).
UiBimStack(rt) ==
    LET df  == DataFrame(rt)
        df2 == RoundFrame(df)
    IN  [tag      |-> "Stack",
         heading  |-> "Runner times",
         table    |-> TableFromDataframe(df2),
         store_bim_results |-> [runner_times |-> ToDict(df)]]

\* ui_bim.compute_runner_times(model, config): the stack, or the exception
\* runner_times raised.
UiBimComputeRunnerTimes(model, config, env) ==
    LET rt == RunnerTimes(model, config, env)
    IN  IF IsException(rt) THEN rt ELSE UiBimStack(rt.items)

(***************************************************************************)
(* compute_runner_times (main.py)                                          *)
(***************************************************************************)
\* The html.Div of the except branch.
ErrorDiv(e) ==
    [tag      |-> "Div",
     children |-> <<H1("text-danger", <<"Error (", e.type, ")">>), Pre("", e.msg)>>]

\* The value of the local variable model after line 186 (or the exception
\* raised on the way) and of the local variable config.
ComputeLocals(cfg, model_b64, env) ==
    LET config     == ModelValidate(cfg)
        file_bytes == IF IsException(config) THEN config
                      ELSE B64Decode(model_b64)
        written    == IF IsException(file_bytes) THEN file_bytes
                      ELSE WriteTemp(file_bytes, env)
        model      == IF IsException(written) THEN written
                      ELSE FromIfc(written, env)
    IN  [config |-> config, file_bytes |-> file_bytes, model |-> model]

\* The mutation of compute_runner_times whose try block starts after the
\* decoding of the stored model: a failure before it escapes.
ComputeRunnerTimes_LateTry(cfg, model_b64, env) ==
    LET loc   == ComputeLocals(cfg, model_b64, env)
        inner == IF IsException(loc.model) THEN loc.model
                 ELSE UiBimComputeRunnerTimes(loc.model, loc.config, env)
    IN  IF IsException(loc.file_bytes) THEN loc.file_bytes
        ELSE IF IsException(inner) THEN ErrorDiv(inner)
        ELSE [tag |-> "Div", children |-> <<inner>>]

\* The value compute_runner_times returns for bim-results.children; an
\* exception that escaped the function would be returned as itself.
ComputeRunnerTimes(cfg, model_b64, env) ==
    LET loc   == ComputeLocals(cfg, model_b64, env)
        inner == IF IsException(loc.model) THEN loc.model
                 ELSE UiBimComputeRunnerTimes(loc.model, loc.config, env)
    IN  IF IsException(inner) THEN ErrorDiv(inner)
        ELSE [tag |-> "Div", children |-> <<inner>>]

(***************************************************************************)
(* Inputs                                                                  *)
(***************************************************************************)
\* The uploads a user makes through upload-ifc-file: the contents data URL
\* (header, comma, base64 payload) and the file name.
IfcUploads ==
    { [filename |-> "ward.ifc",  contents |-> <<"d", ",", "Q", "U", "Q", "=">>],
      [filename |-> "lab.ifc",   contents |-> <<"d", ",", "Q", "!", "Q", "=", "=">>],
      [filename |-> "plain.ifc", contents |-> <<"d", "Q", "U", "Q", "=">>],
      [filename |-> "multi.ifc", contents |-> <<"d", ",", "Q", "Q", ",", "=", "=">>],
      [filename |-> "short.ifc", contents |-> <<"d", ",", "Q", "U">>] }

\* The uploads a user makes through upload-bim-config.
ConfigUploads ==
    { [filename |-> "day.xlsx",   contents |-> <<"x", ",", "U", "Q", "U", "=">>],
      [filename |-> "night.xlsx", contents |-> <<"x", ",", "U", "U", "=", "=">>],
      [filename |-> "short.xlsx", contents |-> <<"x", ",", "U">>] }

\* What the environment of an IFC upload can do.
IfcEnvs == { [io |-> "ok"], [io |-> "write_fails"], [io |-> "from_ifc_raises"] }

\* What the environment of a config upload can do.
ConfigEnvs ==
    { [io |-> "ok"], [io |-> "load_workbook_raises"], [io |-> "from_excel_raises"] }

\* What runner_times can do: raise, or return a mapping, given as its items
\* <<str(key), value>>.
RunnerTimesOutcomes ==
    { Exception("KeyError", "no route"),
      [tag |-> "dict", items |-> <<>>],
      [tag |-> "dict",
       items |-> << <<(<<"(", "'", "A", "'", ",", "'", "B", "'", ")">>), 20015>>,
                    <<(<<"C">>), 12345>> >>] }

\* What the environment of a compute run can do.
ComputeEnvs ==
    { [io |-> "from_ifc_raises", rt |-> Exception("KeyError", "no route")] }
    \cup { [io |-> "ok", rt |-> r] : r \in RunnerTimesOutcomes }

(***************************************************************************)
(* The callbacks' return values over these inputs                          *)
(***************************************************************************)
\* upload_ifc_file(u.contents, u.filename) under env.
IfcOutcome ==
    [u \in IfcUploads, env \in IfcEnvs |-> UploadIfcFile(u.contents, u.filename, env)]

\* upload_runner_config(u.contents, u.filename) under env.
ConfigOutcome ==
    [u \in ConfigUploads, env \in ConfigEnvs |->
        UploadRunnerConfig(u.contents, u.filename, env)]

\* The values the two stores can hold.
IfcStoreValues ==
    {None} \cup {IfcOutcome[u, env][2] : u \in IfcUploads, env \in IfcEnvs}

ConfigStoreValues ==
    {None} \cup {ConfigOutcome[u, env][2] : u \in ConfigUploads, env \in ConfigEnvs}

\* compute_runner_times(n_clicks, j.cfg, j.model_b64) under env.
ComputeOutcome ==
    [j \in [cfg : ConfigStoreValues, model_b64 : IfcStoreValues], env \in ComputeEnvs |->
        ComputeRunnerTimes(j.cfg, j.model_b64, env)]

(***************************************************************************)
(* State                                                                   *)
(***************************************************************************)
VARIABLES
    span_ifc_file_status,      \* span-ifc-file-status.children
    store_ifc_model,           \* store-ifc-model.data
    btn_upload_ifc_disabled,   \* btn-upload-ifc-file.disabled
    span_bim_config_status,    \* span-bim-config-status.children
    store_bim_config,          \* store-bim-config.data
    btn_upload_cfg_disabled,   \* btn-upload-bim-config.disabled
    btn_compute_disabled,      \* btn-compute-runner-times.disabled
    btn_compute_children,      \* btn-compute-runner-times.children
    bim_results_hidden,        \* bim-results.hidden
    bim_results,               \* bim-results.children
    download_bim_template,     \* download-bim-template.data
    ifc_jobs,                  \* upload_ifc_file invocations in progress (a bag)
    cfg_jobs,                  \* upload_runner_config invocations in progress
    compute_jobs,              \* compute_runner_times invocations in progress
    n_started,                 \* uploads and clicks made so far
    last,                      \* history: the step taken last
    done_ifc,                  \* history: the IFC upload completed last
    done_cfg                   \* history: the config upload completed last

vars ==
    <<span_ifc_file_status, store_ifc_model, btn_upload_ifc_disabled,
      span_bim_config_status, store_bim_config, btn_upload_cfg_disabled,
      btn_compute_disabled, btn_compute_children, bim_results_hidden,
      bim_results, download_bim_template, ifc_jobs, cfg_jobs, compute_jobs,
      n_started, last, done_ifc, done_cfg>>

\* A record of a step: the callback, its arguments, what its environment
\* did, and the value of the store it writes as it was before the step.
Step(op, args, env, prev) == [op |-> op, args |-> args, env |-> env, prev |-> prev]

\* The page as layout() builds it, after the initial call of
\* bim_compute_button_state (the only callback without prevent_initial_call).
Init ==
    /\ span_ifc_file_status = Text(<<"No file uploaded yet.">>)
    /\ store_ifc_model = None
    /\ btn_upload_ifc_disabled = FALSE
    /\ span_bim_config_status = Text(<<"No file uploaded yet.">>)
    /\ store_bim_config = None
    /\ btn_upload_cfg_disabled = FALSE
    /\ btn_compute_disabled = BimComputeButtonState(None, None)
    /\ btn_compute_children = <<"Compute runner times!">>
    /\ bim_results_hidden = FALSE
    /\ bim_results = None
    /\ download_bim_template = None
    /\ ifc_jobs = EmptyBag
    /\ cfg_jobs = EmptyBag
    /\ compute_jobs = EmptyBag
    /\ n_started = 0
    /\ last = Step("layout", None, None, None)
    /\ done_ifc = None
    /\ done_cfg = None

(***************************************************************************)
(* Steps.  A callback with running= is a start step, which applies the     *)
(* first value of each running= entry, and a completion step, which        *)
(* applies the second value of each entry and then the returned outputs    *)
(* (so an output of the callback overrides a running= entry on the same    *)
(* property).  A button that is disabled takes no click.                   *)
(***************************************************************************)
\* The user picks a file in upload-ifc-file (through its button): the
\* background callback starts.
UploadIfcStart(u) ==
    /\ ~btn_upload_ifc_disabled
    /\ n_started < MaxStarts
    /\ n_started' = n_started + 1
    /\ span_ifc_file_status' = Text(<<"Uploading/parsing...">>)
    /\ btn_upload_ifc_disabled' = TRUE
    /\ ifc_jobs' = ifc_jobs (+) SetToBag({u})
    /\ last' = Step("upload_ifc_file:start", u, None, store_ifc_model)
    /\ UNCHANGED <<store_ifc_model, span_bim_config_status, store_bim_config,
                   btn_upload_cfg_disabled, btn_compute_disabled,
                   btn_compute_children, bim_results_hidden, bim_results,
                   download_bim_template, cfg_jobs, compute_jobs,
                   done_ifc, done_cfg>>

\* upload_ifc_file completes; the write of store-ifc-model re-runs
\* bim_compute_button_state.
UploadIfcComplete(u, env) ==
    /\ u \in BagToSet(ifc_jobs)
    /\ LET ret == IfcOutcome[u, env] IN
        /\ span_ifc_file_status' = ret[1]
        /\ store_ifc_model' = ret[2]
        /\ btn_compute_disabled' = BimComputeButtonState(ret[2], store_bim_config)
    /\ btn_upload_ifc_disabled' = FALSE
    /\ ifc_jobs' = ifc_jobs (-) SetToBag({u})
    /\ last' = Step("upload_ifc_file", u, env, store_ifc_model)
    /\ done_ifc' = [args |-> u, env |-> env]
    /\ UNCHANGED <<span_bim_config_status, store_bim_config,
                   btn_upload_cfg_disabled, btn_compute_children,
                   bim_results_hidden, bim_results, download_bim_template,
                   cfg_jobs, compute_jobs, n_started, done_cfg>>

\* The user clicks button-bim-template.
DownloadRunnerTemplate ==
    /\ n_started < MaxStarts
    /\ n_started' = n_started + 1
    /\ download_bim_template' =
           [tag |-> "send_file", filename |-> "runner_times_template.xlsx"]
    /\ last' = Step("download_runner_template", None, None, None)
    /\ UNCHANGED <<span_ifc_file_status, store_ifc_model, btn_upload_ifc_disabled,
                   span_bim_config_status, store_bim_config,
                   btn_upload_cfg_disabled, btn_compute_disabled,
                   btn_compute_children, bim_results_hidden, bim_results,
                   ifc_jobs, cfg_jobs, compute_jobs, done_ifc, done_cfg>>

\* The user picks a file in upload-bim-config: the request is sent.
UploadConfigStart(u) ==
    /\ ~btn_upload_cfg_disabled
    /\ n_started < MaxStarts
    /\ n_started' = n_started + 1
    /\ span_bim_config_status' = Text(<<"Uploading/parsing...">>)
    /\ btn_upload_cfg_disabled' = TRUE
    /\ cfg_jobs' = cfg_jobs (+) SetToBag({u})
    /\ last' = Step("upload_runner_config:start", u, None, store_bim_config)
    /\ UNCHANGED <<span_ifc_file_status, store_ifc_model, btn_upload_ifc_disabled,
                   store_bim_config, btn_compute_disabled, btn_compute_children,
                   bim_results_hidden, bim_results, download_bim_template,
                   ifc_jobs, compute_jobs, done_ifc, done_cfg>>

\* upload_runner_config completes; the write of store-bim-config re-runs
\* bim_compute_button_state.
UploadConfigComplete(u, env) ==
    /\ u \in BagToSet(cfg_jobs)
    /\ LET ret == ConfigOutcome[u, env] IN
        /\ span_bim_config_status' = ret[1]
        /\ store_bim_config' = ret[2]
        /\ btn_compute_disabled' = BimComputeButtonState(store_ifc_model, ret[2])
    /\ btn_upload_cfg_disabled' = FALSE
    /\ cfg_jobs' = cfg_jobs (-) SetToBag({u})
    /\ last' = Step("upload_runner_config", u, env, store_bim_config)
    /\ done_cfg' = [args |-> u, env |-> env]
    /\ UNCHANGED <<span_ifc_file_status, store_ifc_model, btn_upload_ifc_disabled,
                   btn_compute_children, bim_results_hidden, bim_results,
                   download_bim_template, ifc_jobs, compute_jobs, n_started,
                   done_ifc>>

\* The user clicks btn-compute-runner-times: the background callback starts
\* with the two stores' values of that moment (its State arguments).
ComputeStart ==
    /\ ~btn_compute_disabled
    /\ n_started < MaxStarts
    /\ n_started' = n_started + 1
    /\ bim_results_hidden' = TRUE
    /\ btn_upload_ifc_disabled' = TRUE
    /\ btn_upload_cfg_disabled' = TRUE
    /\ btn_compute_disabled' = TRUE
    /\ btn_compute_children' = <<"Spinner", " Computing...">>
    /\ LET j == [cfg |-> store_bim_config, model_b64 |-> store_ifc_model] IN
        /\ compute_jobs' = compute_jobs (+) SetToBag({j})
        /\ last' = Step("compute_runner_times:start", j, None, bim_results)
    /\ UNCHANGED <<span_ifc_file_status, store_ifc_model, span_bim_config_status,
                   store_bim_config, bim_results, download_bim_template,
                   ifc_jobs, cfg_jobs, done_ifc, done_cfg>>

\* The mutation of the completion of compute_runner_times that resets
\* store-ifc-model when the run ended in the error block.
ComputeComplete_ClearsModel(j, env) ==
    /\ j \in BagToSet(compute_jobs)
    /\ bim_results' = ComputeOutcome[j, env]
    /\ store_ifc_model' =
           IF ComputeOutcome[j, env].tag = "Div" /\ Len(ComputeOutcome[j, env].children) = 2
           THEN None ELSE store_ifc_model
    /\ bim_results_hidden' = FALSE
    /\ btn_upload_ifc_disabled' = FALSE
    /\ btn_upload_cfg_disabled' = FALSE
    /\ btn_compute_disabled' = FALSE
    /\ btn_compute_children' = <<"Compute runner times!">>
    /\ compute_jobs' = compute_jobs (-) SetToBag({j})
    /\ last' = Step("compute_runner_times", j, env, bim_results)
    /\ UNCHANGED <<span_ifc_file_status, span_bim_config_status,
                   store_bim_config, download_bim_template, ifc_jobs, cfg_jobs,
                   n_started, done_ifc, done_cfg>>

\* The mutation of the completion of compute_runner_times without the
\* running= entry of bim-results.hidden.
ComputeComplete_KeepsHidden(j, env) ==
    /\ j \in BagToSet(compute_jobs)
    /\ bim_results' = ComputeOutcome[j, env]
    /\ btn_upload_ifc_disabled' = FALSE
    /\ btn_upload_cfg_disabled' = FALSE
    /\ btn_compute_disabled' = FALSE
    /\ btn_compute_children' = <<"Compute runner times!">>
    /\ compute_jobs' = compute_jobs (-) SetToBag({j})
    /\ last' = Step("compute_runner_times", j, env, bim_results)
    /\ UNCHANGED <<bim_results_hidden, span_ifc_file_status, store_ifc_model,
                   span_bim_config_status, store_bim_config,
                   download_bim_template, ifc_jobs, cfg_jobs, n_started,
                   done_ifc, done_cfg>>

\* compute_runner_times completes.
ComputeComplete(j, env) ==
    /\ j \in BagToSet(compute_jobs)
    /\ bim_results' = ComputeOutcome[j, env]
    /\ bim_results_hidden' = FALSE
    /\ btn_upload_ifc_disabled' = FALSE
    /\ btn_upload_cfg_disabled' = FALSE
    /\ btn_compute_disabled' = FALSE
    /\ btn_compute_children' = <<"Compute runner times!">>
    /\ compute_jobs' = compute_jobs (-) SetToBag({j})
    /\ last' = Step("compute_runner_times", j, env, bim_results)
    /\ UNCHANGED <<span_ifc_file_status, store_ifc_model, span_bim_config_status,
                   store_bim_config, download_bim_template, ifc_jobs, cfg_jobs,
                   n_started, done_ifc, done_cfg>>

Next ==
    \/ \E u \in IfcUploads : UploadIfcStart(u)
    \/ \E u \in IfcUploads, env \in IfcEnvs : UploadIfcComplete(u, env)
    \/ DownloadRunnerTemplate
    \/ \E u \in ConfigUploads : UploadConfigStart(u)
    \/ \E u \in ConfigUploads, env \in ConfigEnvs : UploadConfigComplete(u, env)
    \/ ComputeStart
    \/ \E j \in BagToSet(compute_jobs), env \in ComputeEnvs : ComputeComplete(j, env)

Spec == Init /\ [][Next]_vars

(***************************************************************************)
(* Liveness: a started callback completes (the external calls return or    *)
(* raise, and the callback manager runs every invocation it was given).    *)
(* The sessions of this specification use fewer files.                     *)
(***************************************************************************)
LiveIfcUploads == {u \in IfcUploads : u.filename \in {"ward.ifc", "plain.ifc"}}

LiveConfigUploads == {u \in ConfigUploads : u.filename \in {"day.xlsx", "short.xlsx"}}

LiveIfcEnvs == {e \in IfcEnvs : e.io \in {"ok", "from_ifc_raises"}}

LiveConfigEnvs == {e \in ConfigEnvs : e.io \in {"ok", "from_excel_raises"}}

LiveComputeEnvs == {e \in ComputeEnvs : e.rt.tag = "dict" => e.rt.items # <<>>}

UploadIfcCompletes ==
    \E u \in LiveIfcUploads, env \in LiveIfcEnvs : UploadIfcComplete(u, env)

UploadConfigCompletes ==
    \E u \in LiveConfigUploads, env \in LiveConfigEnvs : UploadConfigComplete(u, env)

ComputeCompletes ==
    \E j \in BagToSet(compute_jobs), env \in LiveComputeEnvs : ComputeComplete(j, env)

NextLive ==
    \/ \E u \in LiveIfcUploads : UploadIfcStart(u)
    \/ UploadIfcCompletes
    \/ DownloadRunnerTemplate
    \/ \E u \in LiveConfigUploads : UploadConfigStart(u)
    \/ UploadConfigCompletes
    \/ ComputeStart
    \/ ComputeCompletes

FairSpec ==
    /\ Init /\ [][NextLive]_vars
    /\ WF_vars(UploadIfcCompletes)
    /\ WF_vars(UploadConfigCompletes)
    /\ WF_vars(ComputeCompletes)

(***************************************************************************)
(* Vocabulary of the properties                                            *)
(***************************************************************************)
\* No callback is in progress.
Quiescent ==
    ifc_jobs = EmptyBag /\ cfg_jobs = EmptyBag /\ compute_jobs = EmptyBag

BothStoresPresent == Truthy(store_ifc_model) /\ Truthy(store_bim_config)

NumCommas(s) == Cardinality({i \in 1..Len(s) : s[i] = ","})

\* The part of a data URL after its first comma.
AfterComma(s) ==
    LET k == CHOOSE i \in 1..Len(s) :
                 s[i] = "," /\ \A j \in 1..(i - 1) : s[j] # ","
    IN  SubSeq(s, k + 1, Len(s))

Payload(u) == PyStr(AfterComma(u.contents))

IsErrorStatus(st) == st.tag = "Pre" /\ st.className = "text-danger"

\* The step that fails first in an upload of u under env, "" if none does.
UploadFailure(u, env) ==
    IF NumCommas(u.contents) # 1 THEN "split"
    ELSE IF IsException(B64Decode(Payload(u))) THEN "b64decode"
    ELSE IF env.io # "ok" THEN env.io
    ELSE ""

\* str(e) of the exception an upload of u under env ends with.
UploadErrorText(u, env) ==
    LET f == UploadFailure(u, env) IN
    CASE f = "split" /\ NumCommas(u.contents) = 0 ->
             "not enough values to unpack (expected 2, got 1)"
      [] f = "split" /\ NumCommas(u.contents) > 1 ->
             "too many values to unpack (expected 2)"
      [] f = "b64decode" -> B64Decode(Payload(u)).msg
      [] f = "write_fails" -> "No space left on device"
      [] f = "from_ifc_raises" -> "malformed geometry"
      [] f = "load_workbook_raises" -> "File is not a zip file"
      [] f = "from_excel_raises" -> "validation error for RunnerConfig"
      [] OTHER -> ""

\* The step that fails first in a compute run of job j under env, "" if none.
ComputeFailure(j, env) ==
    IF j.cfg.tag # "dict" THEN "model_validate"
    ELSE IF j.model_b64.tag = "None" THEN "b64decode(None)"
    ELSE IF IsException(B64Decode(j.model_b64)) THEN "b64decode"
    ELSE IF env.io # "ok" THEN env.io
    ELSE IF IsException(env.rt) THEN "runner_times"
    ELSE ""

\* The children of bim-results hold an error block / a results table.
HasErrorBlock(div) ==
    \E i \in 1..Len(div.children) :
        div.children[i].tag = "H1" /\ div.children[i].className = "text-danger"

HasResultsTable(div) ==
    \E i \in 1..Len(div.children) : div.children[i].tag = "Stack"

(***************************************************************************)
(* C1                                                                      *)
(***************************************************************************)
\* C1: in every reachable state the compute button is enabled if and only
\* if both stores hold a truthy value.
C1_ButtonIffStores == ~btn_compute_disabled <=> BothStoresPresent

\* C1, restricted to the states in which no callback is in progress.
C1_ButtonIffStoresWhenQuiescent == Quiescent => C1_ButtonIffStores

(***************************************************************************)
(* C2                                                                      *)
(***************************************************************************)
\* C2: an IFC upload that fails at any step ends with the exception text as
\* the status and None in store-ifc-model; an error status never stands
\* beside a non-null stored model.
C2_FailedIfcUploadNullsStore ==
    /\ IsErrorStatus(span_ifc_file_status) => store_ifc_model = None
    /\ (last.op = "upload_ifc_file" /\ UploadFailure(last.args, last.env) # "")
         => /\ span_ifc_file_status =
                   Pre("text-danger", UploadErrorText(last.args, last.env))
            /\ store_ifc_model = None

\* A payload that decodes is rejected by from_ifc while a model is stored.
C2_Witness ==
    /\ last.op = "upload_ifc_file"
    /\ UploadFailure(last.args, last.env) = "from_ifc_raises"
    /\ Truthy(last.prev)
    /\ store_ifc_model = None
    /\ IsErrorStatus(span_ifc_file_status)

(***************************************************************************)
(* C3                                                                      *)
(***************************************************************************)
\* C3: a config upload that fails at any step ends with the exception text
\* as the status and None in store-bim-config, whatever was stored before;
\* an error status never stands beside a non-null stored config.
C3_FailedConfigUploadNullsStore ==
    /\ IsErrorStatus(span_bim_config_status) => store_bim_config = None
    /\ (last.op = "upload_runner_config" /\ UploadFailure(last.args, last.env) # "")
         => /\ span_bim_config_status =
                   Pre("text-danger", UploadErrorText(last.args, last.env))
            /\ store_bim_config = None

\* A workbook that does not validate is uploaded over a stored config.
C3_Witness ==
    /\ last.op = "upload_runner_config"
    /\ UploadFailure(last.args, last.env) = "from_excel_raises"
    /\ Truthy(last.prev)
    /\ store_bim_config = None
    /\ IsErrorStatus(span_bim_config_status)

(***************************************************************************)
(* C4                                                                      *)
(***************************************************************************)
\* The state after a compute run: a Div, which is the error block with the
\* exception text if a step failed and the results table if none did.
C4_RunEndsInOneBlock ==
    last.op = "compute_runner_times" =>
        /\ bim_results.tag = "Div"
        /\ ~(HasErrorBlock(bim_results) /\ HasResultsTable(bim_results))
        /\ ComputeFailure(last.args, last.env) # "" =>
              /\ HasErrorBlock(bim_results)
              /\ \E i \in 1..Len(bim_results.children) :
                    /\ bim_results.children[i].tag = "Pre"
                    /\ bim_results.children[i].children =
                          CASE ComputeFailure(last.args, last.env) = "model_validate" ->
                                   "Input should be a valid dictionary"
                            [] ComputeFailure(last.args, last.env) = "b64decode(None)" ->
                                   "argument should be a bytes-like object or ASCII string, not 'NoneType'"
                            [] ComputeFailure(last.args, last.env) = "b64decode" ->
                                   B64Decode(last.args.model_b64).msg
                            [] ComputeFailure(last.args, last.env) = "from_ifc_raises" ->
                                   "malformed geometry"
                            [] OTHER -> last.env.rt.msg
        /\ ComputeFailure(last.args, last.env) = "" => HasResultsTable(bim_results)

\* C4: every failure of a compute run is caught in the callback and shown
\* as an error block with the exception text in place of the results table;
\* the completion of a run starts no other run.
C4_ComputeFailuresCaught ==
    /\ []C4_RunEndsInOneBlock
    /\ [][last'.op = "compute_runner_times" =>
            /\ n_started' = n_started
            /\ BagCardinality(compute_jobs') = BagCardinality(compute_jobs) - 1
            /\ UNCHANGED <<ifc_jobs, cfg_jobs>>]_vars

\* A run started on a null stored model ends in the error block.
C4_Witness ==
    /\ last.op = "compute_runner_times"
    /\ ComputeFailure(last.args, last.env) = "b64decode(None)"
    /\ HasErrorBlock(bim_results)

(***************************************************************************)
(* C5                                                                      *)
(***************************************************************************)
\* C5: each store is null or holds what the most recently completed upload
\* of its kind gave (the payload after the comma, which decoded and passed
\* from_ifc; the dump of the parsed config); a compute run takes the stores
\* as they are when it starts and builds its model from the bytes of the
\* payload it took.
C5_StoresHoldLastUpload ==
    /\ store_ifc_model # None =>
          /\ done_ifc # None
          /\ NumCommas(done_ifc.args.contents) = 1
          /\ store_ifc_model = Payload(done_ifc.args)
          /\ ~IsException(B64Decode(store_ifc_model))
          /\ done_ifc.env.io = "ok"
    /\ store_bim_config # None =>
          /\ done_cfg # None
          /\ done_cfg.env.io = "ok"
          /\ store_bim_config.tag = "dict"
          /\ store_bim_config.fields = B64Decode(Payload(done_cfg.args)).b
    /\ last.op = "compute_runner_times:start" =>
          /\ last.args.model_b64 = store_ifc_model
          /\ last.args.cfg = store_bim_config
    /\ (last.op = "compute_runner_times"
          /\ ComputeFailure(last.args, last.env) \in {"", "runner_times"}) =>
          ComputeLocals(last.args.cfg, last.args.model_b64, last.env).model
              = [tag |-> "BimModel", ifc |-> B64Decode(last.args.model_b64).b]

\* A second model replaced a first one and a run on it gave results.
C5_Witness ==
    /\ last.op = "compute_runner_times"
    /\ ComputeFailure(last.args, last.env) = ""
    /\ done_ifc # None /\ done_ifc.args.filename = "lab.ifc"
    /\ last.args.model_b64 = store_ifc_model
    /\ store_ifc_model = PyStr(<<"Q", "!", "Q", "=", "=">>)
    /\ Truthy(store_bim_config)

(***************************************************************************)
(* C6                                                                      *)
(***************************************************************************)
\* d is v rounded to 3 decimal places (a multiple of 10 in 1/10000 units).
IsRounded3(d, v) ==
    /\ d % 10 = 0
    /\ d - v <= 5 /\ v - d <= 5
    /\ (d - v = 5 \/ v - d = 5) => (d \div 10) % 2 = 0

\* C6: the results of a mapping have one table row per entry, of two
\* columns (the key's string without apostrophes, the duration rounded to
\* 3 places), and store-bim-results holds the durations unrounded.
C6_TableRoundedStoreExact ==
    (last.op = "compute_runner_times" /\ ComputeFailure(last.args, last.env) = "") =>
        LET rt    == last.env.rt.items
            stack == bim_results.children[1]
            data  == stack.store_bim_results.runner_times
        IN  /\ Len(stack.table.header) = 2
            /\ Len(stack.table.rows) = Len(rt)
            /\ DOMAIN data.runner_time = 1..Len(rt)
            /\ DOMAIN data.runner_journey = 1..Len(rt)
            /\ \A i \in 1..Len(rt) :
                  /\ Len(stack.table.rows[i]) = 2
                  /\ stack.table.rows[i][1] = SelectSeq(rt[i][1], LAMBDA c : c # "'")
                  /\ IsRounded3(stack.table.rows[i][2], rt[i][2])
                  /\ data.runner_journey[i] = stack.table.rows[i][1]
                  /\ data.runner_time[i] = rt[i][2]

\* A table shows a rounded duration whose stored value is not rounded.
C6_Witness ==
    /\ last.op = "compute_runner_times"
    /\ ComputeFailure(last.args, last.env) = ""
    /\ Len(last.env.rt.items) = 2
    /\ bim_results.children[1].table.rows[1][2] = 20020
    /\ bim_results.children[1].store_bim_results.runner_times.runner_time[1] = 20015

(***************************************************************************)
(* C7                                                                      *)
(***************************************************************************)
\* C7: while a compute run is in progress the two upload buttons and the
\* compute button are disabled and the results are hidden, and no second
\* run is in progress.
C7_LockedWhileComputing ==
    compute_jobs # EmptyBag =>
        /\ btn_upload_ifc_disabled
        /\ btn_upload_cfg_disabled
        /\ btn_compute_disabled
        /\ bim_results_hidden
        /\ BagCardinality(compute_jobs) = 1

\* The last part of C7 alone: no two compute runs are in progress at once.
C7_NoSecondRun == BagCardinality(compute_jobs) <= 1

(***************************************************************************)
(* C8                                                                      *)
(***************************************************************************)
\* C8: while an IFC upload is in progress, btn-upload-ifc-file is disabled.
C8_IfcButtonDisabledWhileUploading ==
    ifc_jobs # EmptyBag => btn_upload_ifc_disabled

(***************************************************************************)
(* C9                                                                      *)
(***************************************************************************)
\* C9: a compute run and a template download leave both stores unchanged;
\* store-ifc-model changes only in a completion of upload_ifc_file and
\* store-bim-config only in a completion of upload_runner_config, and each
\* of the two leaves the other store unchanged.
C9_StoresWrittenByUploadsOnly ==
    [][ /\ last'.op \in {"compute_runner_times:start", "compute_runner_times",
                         "download_runner_template"}
            => UNCHANGED <<store_ifc_model, store_bim_config>>
        /\ store_ifc_model' # store_ifc_model => last'.op = "upload_ifc_file"
        /\ store_bim_config' # store_bim_config => last'.op = "upload_runner_config"
        /\ last'.op = "upload_ifc_file" => UNCHANGED store_bim_config
        /\ last'.op = "upload_runner_config" => UNCHANGED store_ifc_model ]_vars

\* A run that ended in an error block, with both stores still holding values.
C9_Witness ==
    /\ last.op = "compute_runner_times"
    /\ HasErrorBlock(bim_results)
    /\ BothStoresPresent
    /\ download_bim_template # None

(***************************************************************************)
(* C10                                                                     *)
(***************************************************************************)
\* The page at rest: upload buttons enabled, results shown, the compute
\* button enabled if both stores hold a value.
IdleUI ==
    /\ ~btn_upload_ifc_disabled
    /\ ~btn_upload_cfg_disabled
    /\ ~bim_results_hidden
    /\ BothStoresPresent => ~btn_compute_disabled

\* C10: callbacks in progress all complete, and whenever none is in
\* progress the page is at rest.
C10_CompletesAndRestores ==
    /\ [](Quiescent => IdleUI)
    /\ (~Quiescent ~> Quiescent)

\* At rest after a compute run that overlapped an upload.
C10_Witness ==
    /\ Quiescent
    /\ IdleUI
    /\ n_started >= 4
    /\ last.op \in {"upload_ifc_file", "upload_runner_config"}
    /\ bim_results # None

====
